---- MODULE Spec2Model ----
(***************************************************************************)
(* Verification model of the AiderWrapper repository.                      *)
(*                                                                         *)
(* Part 1: bookkeeping/trends.py, summarize_trend.                         *)
(* Part 2: nolight/runner.py and the send handler of nolight/app.py.       *)
(* Part 3: utils/config.py (script upgrade, build and launch, working      *)
(*         directory cache) and utils/git.py (history table).              *)
(*                                                                         *)
(* Number representation.  The Python code works on floats.  Here          *)
(*   - the quantities that Python computes with +, -, *, / and mean() are  *)
(*     exact rationals [num, den] (for the integer observations drawn      *)
(*     below, the doubles of the code are exact wherever the model's       *)
(*     rational is a dyadic value, in particular for data on a line);      *)
(*   - the results of math.sqrt and of NormalDist, and everything the      *)
(*     code computes from them, are fixed-point numbers: the integer k     *)
(*     stands for k / FScale, rounded down to that resolution.             *)
(***************************************************************************)
EXTENDS Integers, Sequences, FiniteSets, TLC

\* ---------------------------------------------------------------- bounds
MaxLen == 3          \* longest arbitrary observation sequence
MaxAbs == 1          \* arbitrary observations range over -MaxAbs..MaxAbs
MaxLineLen == 5      \* longest observation sequence lying exactly on a line
LineAbs == 5         \* first value of such a line ranges over -LineAbs..LineAbs
StepMax == 1         \* step of such a line ranges over -StepMax..StepMax
MaxHorizon == 5      \* horizons range over 0..MaxHorizon
FScale == 1000       \* resolution of the fixed-point numbers
MaxSends == 2        \* messages the user sends in one session
MaxOutput == 2       \* lines aider prints in one run
MaxScriptLen == 3    \* pieces of the bootstrap script before its closing braces
MaxRuns == 2         \* runs of the script upgrade on one project
MaxPathLen == 3      \* characters of a saved working directory path
MaxIdLen == 10       \* characters of the longest request id and commit id

\* trends.py lines 12-13: the fallbacks of the module-level defaults (no
\* config.ini sets them), the confidence in units of 1/1000
forecast_horizon_fallback == 10
confidence_level_fallback == 950

\* bookkeeping/trends.py and its caller
VARIABLES
    values,      \* the caller's observation sequence (argument `values`)
    horizon,     \* argument `horizon`
    confidence,  \* argument `confidence`, in units of 1/1000
    result,      \* outcome of the latest call of summarize_trend
    prev,        \* confidence and outcome of the call before it, same data
    DEFAULT_HORIZON,     \* module-level default of `horizon`
    DEFAULT_CONFIDENCE   \* module-level default of `confidence`

trendVars == <<values, horizon, confidence, result, prev,
               DEFAULT_HORIZON, DEFAULT_CONFIDENCE>>

\* nolight/runner.py (module state and the run_aider workers) and the
\* widgets of nolight/app.py that the send handler and the workers share
VARIABLES
    request_history,     \* runner.request_history
    current_request_id,  \* runner.current_request_id
    request_active,      \* runner.request_active
    session_cost,        \* runner.session_cost, in cents
    status_text,         \* status_var
    input_state,         \* state of txt_input
    input_text,          \* content of txt_input
    threads,             \* the run_aider workers started so far, in order
    output_widget,       \* content of the output widget: "empty" or "filled"
    reset_on_new_request \* runner.reset_on_new_request

runnerVars == <<request_history, current_request_id, request_active,
                session_cost, status_text, input_state, input_text, threads,
                output_widget, reset_on_new_request>>

\* utils/config.py, _upgrade_input_module_bootstrap
VARIABLES
    script,      \* Assets/Scripts/UI/InputModuleBootstrap.cs of the project
    returned     \* what the runs of the upgrade returned so far, in order

upgradeVars == <<script, returned>>

\* utils/config.py, build_and_launch_game
VARIABLES
    build_args,    \* the arguments of the call
    host,          \* config.ini, the environment and the files of the machine
    calls,         \* the subprocess calls made so far, in order
    build_proc,    \* the completed build process
    build_result,  \* how the call ended
    unity_exe,     \* what _find_unity_exe gave the call, if it was called
    work_dir_var,  \* nolight/app.py: the selected project directory
    builder_calls, \* the project_path of each call of the builder, in order
    dialogs,       \* the messages of the "Build failed" dialogs shown so far
    launch_result  \* how launch_game ended

buildVars == <<build_args, host, calls, build_proc, build_result, unity_exe,
               work_dir_var, builder_calls, dialogs, launch_result>>

\* utils/config.py, the working directory cache
VARIABLES
    cache_file,    \* content of the cache file
    saved,         \* the path of the latest save_working_dir
    loaded         \* what the latest load_working_dir returned

cacheVars == <<cache_file, saved, loaded>>

\* utils/git.py and the history window of nolight/app.py
VARIABLES
    rec,             \* a record of request_history
    row,             \* what format_history_row(rec) returned
    history_window   \* how show_history ended

historyVars == <<rec, row, history_window>>

utilVars == <<upgradeVars, buildVars, cacheVars, historyVars>>

vars == <<trendVars, runnerVars, utilVars>>

\* Python's None and a present optional value
None == << >>
Some(x) == <<x>>

\* a literal text, and an f-string with its interpolated values
Str(text) == [text |-> text, args |-> << >>]
Fmt(text, args) == [text |-> text, args |-> args]

\* the script upgrade before any run, in a project without the script
UpgradeAtRest ==
    /\ script = None
    /\ returned = << >>

\* build_and_launch_game before any call
BuildAtRest ==
    /\ build_args = None
    /\ host = None
    /\ calls = << >>
    /\ build_proc = None
    /\ build_result = "not_called"
    /\ unity_exe = [called |-> FALSE, raised |-> "", value |-> None]
    /\ work_dir_var = ""
    /\ builder_calls = << >>
    /\ dialogs = << >>
    /\ launch_result = "not_called"

\* the working directory cache before any save or load
CacheAtRest ==
    /\ cache_file = None
    /\ saved = None
    /\ loaded = [called |-> FALSE, value |-> None]

\* the history table before it is opened
HistoryAtRest ==
    /\ rec = None
    /\ row = None
    /\ history_window = "closed"

\* runner.py lines 15-22 and app.py lines 156-225: the module as imported and
\* the window as built, before the user does anything
RunnerImported ==
    /\ request_history = << >>
    /\ current_request_id = None
    /\ request_active = FALSE
    /\ session_cost = 0
    /\ status_text = Str("Aider is waiting on our input")
    /\ input_text = ""
    /\ threads = << >>
    /\ output_widget = "empty"
    /\ reset_on_new_request = FALSE

\* the window with the API key verified: the input box takes text
RunnerStarted ==
    /\ RunnerImported
    /\ input_state = "normal"

\* ------------------------------------------------- exact float arithmetic
Abs(i) == IF i < 0 THEN -i ELSE i

RECURSIVE GCD(_, _)
GCD(a, b) == IF b = 0 THEN a ELSE GCD(b, a % b)

\* the rational nu/de in lowest terms with a positive denominator (de # 0)
Norm(nu, de) ==
    LET g == GCD(Abs(nu), Abs(de))
        s == IF de < 0 THEN -1 ELSE 1
    IN  [num |-> (s * nu) \div g, den |-> (s * de) \div g]

Rat(i) == [num |-> i, den |-> 1]
RAdd(a, b) == Norm(a.num * b.den + b.num * a.den, a.den * b.den)
RSub(a, b) == Norm(a.num * b.den - b.num * a.den, a.den * b.den)
RMul(a, b) == Norm(a.num * b.num, a.den * b.den)
\* a / b; the callers raise ZeroDivisionError before dividing by zero
RDiv(a, b) == Norm(a.num * b.den, a.den * b.num)
RIsZero(a) == a.num = 0
RPositive(a) == a.num > 0

RECURSIVE RSum(_)
RSum(s) == IF s = <<>> THEN Rat(0) ELSE RAdd(Head(s), RSum(Tail(s)))

\* statistics.mean
mean(data) == RDiv(RSum([i \in 1..Len(data) |-> Rat(data[i])]), Rat(Len(data)))

\* ----------------------------------------------- fixed-point arithmetic
\* a float value as a fixed-point number
ToFixed(r) == (r.num * FScale) \div r.den

FMul(a, b) == (a * b) \div FScale
FDiv(a, b) == (a * FScale) \div b

RECURSIVE ISqrtIter(_, _, _)
ISqrtIter(x, lo, hi) ==
    IF lo >= hi THEN lo
    ELSE LET mid == (lo + hi + 1) \div 2
         IN  IF mid * mid <= x THEN ISqrtIter(x, mid, hi)
             ELSE ISqrtIter(x, lo, mid - 1)

\* math.sqrt of a float value, as a fixed-point number
Sqrt(r) == ISqrtIter(ToFixed(r) * FScale, 0, 46340)

\* -------------------------------------------- statistics.NormalDist
\* linear interpolation in a table of knots <<x, y>> sorted by x,
\* for knots[1][1] <= x <= knots[Len(knots)][1]
Interpolate(knots, x) ==
    LET i == CHOOSE k \in 1..(Len(knots) - 1) :
                 knots[k][1] <= x /\ x <= knots[k + 1][1]
        x0 == knots[i][1]
        y0 == knots[i][2]
        x1 == knots[i + 1][1]
        y1 == knots[i + 1][2]
    IN  y0 + ((y1 - y0) * (x - x0)) \div (x1 - x0)

\* quantiles of the standard normal distribution, probability and quantile
\* both in units of 1/1000, for probabilities 0.5 .. 0.999
QuantileKnots ==
    << <<500, 0>>, <<600, 253>>, <<700, 524>>, <<750, 674>>, <<800, 842>>,
       <<850, 1036>>, <<900, 1282>>, <<950, 1645>>, <<975, 1960>>,
       <<990, 2326>>, <<995, 2576>>, <<999, 3090>> >>

\* NormalDist().inv_cdf(p) for a float p with 0.001 <= p <= 0.999,
\* as a fixed-point number; the quantile function is odd around p = 0.5
inv_cdf(p) ==
    LET pm == (p.num * 1000) \div p.den
        zm == IF pm >= 500 THEN Interpolate(QuantileKnots, pm)
              ELSE -Interpolate(QuantileKnots, 1000 - pm)
    IN  (zm * FScale) \div 1000

\* the standard normal distribution function at t >= 0, argument and value
\* in units of 1/1000; in doubles the value is exactly 1.0 from about 8.3 on
CdfKnots ==
    << <<0, 500>>, <<500, 691>>, <<1000, 841>>, <<1500, 933>>,
       <<2000, 977>>, <<2500, 993>>, <<3000, 998>>, <<3500, 999>>,
       <<8300, 999>> >>

\* NormalDist(mu, sigma).cdf(x) for fixed-point mu, sigma > 0 and x,
\* as a fixed-point number: 0.5 * (1 + erf((x - mu) / (sigma * sqrt(2))))
cdf(mu, sigma, x) ==
    LET t  == FDiv(x - mu, sigma)
        tm == IF Abs(t) >= 9 * FScale THEN 9000 ELSE (Abs(t) * 1000) \div FScale
        pm == IF tm >= 8300 THEN 1000 ELSE Interpolate(CdfKnots, tm)
        qm == IF t >= 0 THEN pm ELSE 1000 - pm
    IN  (qm * FScale) \div 1000

\* ------------------------------------------------------ summarize_trend
\* the confidence levels a caller passes, in units of 1/1000
Confidences == {950, 990}

\* an exception leaves summarize_trend without a result
Raise(exception) == [status |-> exception]

\* the guard of line 34 off by one: a single observation is accepted
InsufficientData_OffByOne(n) == n < 1

\* line 34: the guard of the insufficient-data error
InsufficientData(n) == n < 2

\* line 58 reading the module default 0.95 in place of the argument
z_probability_Default(confidence_) ==
    RDiv(RAdd(Rat(1), Norm(950, 1000)), Rat(2))

\* line 58: the argument of inv_cdf
z_probability(confidence_) ==
    RDiv(RAdd(Rat(1), Norm(confidence_, 1000)), Rat(2))

\* lines 59-62 with the two bounds exchanged
current_ci_Swapped(current_mean, z, current_se) ==
    << ToFixed(current_mean) + FMul(z, current_se),
       ToFixed(current_mean) - FMul(z, current_se) >>

\* lines 59-62
current_ci(current_mean, z, current_se) ==
    << ToFixed(current_mean) - FMul(z, current_se),
       ToFixed(current_mean) + FMul(z, current_se) >>

\* lines 57 and 74: standard error of the fitted value at position x
value_se(s_err, n, x, x_mean, denominator) ==
    FMul(s_err,
         Sqrt(RAdd(RDiv(Rat(1), Rat(n)),
                   RDiv(RMul(RSub(Rat(x), x_mean), RSub(Rat(x), x_mean)),
                        denominator))))

\* lines 69 and 79 taking the two-sided tail, 1 - 2 * cdf(0)
p_positive_TwoSided(mu, se) ==
    IF se = 0
    THEN IF RPositive(mu) THEN FScale ELSE 0
    ELSE FScale - 2 * cdf(ToFixed(mu), se, 0)

\* lines 65-69 and 75-79: probability that a normal value with the given
\* mean and standard error is above zero
p_positive(mu, se) ==
    IF se = 0
    THEN IF RPositive(mu) THEN FScale ELSE 0
    ELSE FScale - cdf(ToFixed(mu), se, 0)

\* line 42 summing the deviations themselves
squared_deviation_Unsquared(x, x_mean) == RSub(Rat(x), x_mean)

\* line 42, (x - x_mean) ** 2
squared_deviation(x, x_mean) ==
    RMul(RSub(Rat(x), x_mean), RSub(Rat(x), x_mean))

\* line 72 stepping back from the last observation
forecast_position_Back(current_x, horizon_) == current_x - horizon_

\* line 72, future_x = current_x + horizon
forecast_position(current_x, horizon_) == current_x + horizon_

\* every local of summarize_trend(values_, horizon_, confidence_), with the
\* exception it raises in `raised` ("" when it returns)
Locals(values_, horizon_, confidence_) ==
    LET data == values_
        n == Len(data)
    IN
    IF InsufficientData(n) THEN [raised |-> "ValueError", n |-> n] ELSE
    LET x_values == [i \in 1..n |-> i - 1]
        x_mean == RDiv(Rat(n - 1), Rat(2))
        y_mean == mean(data)
        denominator ==
            RSum([i \in 1..n |-> squared_deviation(x_values[i], x_mean)])
    IN
    IF RIsZero(denominator)
    THEN [raised |-> "ZeroDivisionError", n |-> n, denominator |-> denominator]
    ELSE
    LET slope ==
            RDiv(RSum([i \in 1..n |-> RMul(RSub(Rat(x_values[i]), x_mean),
                                           RSub(Rat(data[i]), y_mean))]),
                 denominator)
        intercept == RSub(y_mean, RMul(slope, x_mean))
        fitted == [i \in 1..n |-> RAdd(intercept, RMul(slope, Rat(x_values[i])))]
        residuals == [i \in 1..n |-> RSub(Rat(data[i]), fitted[i])]
        sum_sq == RSum([i \in 1..n |-> RMul(residuals[i], residuals[i])])
    IN
    IF n - 2 = 0
    THEN [raised |-> "ZeroDivisionError", n |-> n, denominator |-> denominator,
          slope |-> slope, intercept |-> intercept, sum_sq |-> sum_sq]
    ELSE
    LET s_err == Sqrt(RDiv(sum_sq, Rat(n - 2)))
        slope_se == FDiv(s_err, Sqrt(denominator))
        current_x == x_values[n]
        current_mean == RAdd(intercept, RMul(slope, Rat(current_x)))
        current_se == value_se(s_err, n, current_x, x_mean, denominator)
        z == inv_cdf(z_probability(confidence_))
        future_x == forecast_position(current_x, horizon_)
        future_mean == RAdd(intercept, RMul(slope, Rat(future_x)))
        future_se == value_se(s_err, n, future_x, x_mean, denominator)
    IN  [raised |-> "", n |-> n, denominator |-> denominator,
         slope |-> slope, intercept |-> intercept, sum_sq |-> sum_sq,
         s_err |-> s_err, slope_se |-> slope_se,
         current_mean |-> current_mean, current_se |-> current_se, z |-> z,
         current_ci |-> current_ci(current_mean, z, current_se),
         p_slope_positive |-> p_positive(slope, slope_se),
         future_x |-> future_x, future_mean |-> future_mean,
         future_se |-> future_se,
         p_future_positive |-> p_positive(future_mean, future_se)]

\* lines 16-85: the outcome of summarize_trend(values_, horizon_, confidence_):
\* the exception it raises, or the dictionary it returns
summarize_trend(values_, horizon_, confidence_) ==
    LET l == Locals(values_, horizon_, confidence_)
    IN  IF l.raised # "" THEN Raise(l.raised)
        ELSE [status |-> "ok",
              current |-> ToFixed(l.current_mean),
              low |-> l.current_ci[1],
              high |-> l.current_ci[2],
              p_slope_positive |-> l.p_slope_positive,
              p_above_zero_future |-> l.p_future_positive]

\* ----------------------------------------------------------- the callers
\* sequences of length n over the set S
SeqsOfLen(S, n) == [1..n -> S]

\* arbitrary observation sequences, the empty one included
NoisySeries == UNION {SeqsOfLen(-MaxAbs..MaxAbs, n) : n \in 0..MaxLen}

\* observation sequences lying exactly on a line
LineSeries ==
    {[i \in 1..n |-> a + b * (i - 1)] :
        n \in 2..MaxLineLen, a \in -LineAbs..LineAbs, b \in -StepMax..StepMax}

Observations == NoisySeries \cup LineSeries

NotCalled == [status |-> "not_called"]

\* the module is imported (lines 9-13) and a caller holds its arguments; a
\* caller that leaves horizon out passes the module's default
Init ==
    /\ DEFAULT_HORIZON = forecast_horizon_fallback
    /\ DEFAULT_CONFIDENCE = confidence_level_fallback
    /\ values \in Observations
    /\ horizon \in (0..MaxHorizon) \cup {DEFAULT_HORIZON}
    /\ confidence \in Confidences
    /\ result = NotCalled
    /\ prev = [confidence |-> 0, result |-> NotCalled]
    /\ RunnerStarted
    /\ UpgradeAtRest /\ BuildAtRest /\ CacheAtRest /\ HistoryAtRest

\* line 32 when the argument is an iterator: list() drains it
values_after_list_Iterator(values_) == << >>

\* line 32, data = list(values): the caller's materialized sequence after the
\* copy is taken; lines 33-85 read `data` and write neither it nor `values`
values_after_list(values_) == values_

\* what a call leaves in the memory it shares with its caller: the argument
\* object and the two module-level names, which no line of the body assigns
Frame(values_) ==
    /\ values' = values_after_list(values_)
    /\ UNCHANGED <<DEFAULT_HORIZON, DEFAULT_CONFIDENCE>>

\* the caller calls summarize_trend(values, horizon, confidence)
Summarize ==
    /\ result = NotCalled
    /\ result' = summarize_trend(values, horizon, confidence)
    /\ Frame(values)
    /\ UNCHANGED <<horizon, confidence, prev>>
    /\ UNCHANGED <<runnerVars, utilVars>>

\* the caller calls again on the same observations and horizon with
\* another confidence level c and keeps the earlier outcome
Resummarize(c) ==
    /\ result # NotCalled
    /\ c # confidence
    /\ prev' = [confidence |-> confidence, result |-> result]
    /\ confidence' = c
    /\ result' = summarize_trend(values, horizon, c)
    /\ Frame(values)
    /\ UNCHANGED horizon
    /\ UNCHANGED <<runnerVars, utilVars>>

Next ==
    \/ Summarize
    \/ \E c \in Confidences : Resummarize(c)

Spec == Init /\ [][Next]_vars

\* ===================================================== part 2: the runner
\* The texts of the program are kept as they are written in the source; a
\* formatted text is its template with the interpolated values.  Money is
\* counted in cents.

\* commit hashes aider may report, and the dollar amounts (in cents)
CommitIds == {"abcdef1", "1234567"}
Costs == {50}

\* a line of aider's output, by what the scanners of the read loop find in it
Line(commit, cost, ask, suppress) ==
    [commit |-> commit, cost |-> cost, ask |-> ask, suppress |-> suppress]

AiderLines ==
    {Line(None, None, FALSE, FALSE),     \* ordinary output
     Line(None, None, FALSE, TRUE),      \* a known noisy warning
     Line(None, None, TRUE, FALSE)}      \* aider asks the user for something
    \cup {Line(Some(c), None, FALSE, FALSE) : c \in CommitIds}
    \cup {Line(None, Some(k), FALSE, FALSE) : k \in Costs}

should_suppress(line) == line.suppress
extract_commit_id(line) == line.commit
extract_cost(line) == line.cost
needs_user_input(line) == line.ask

\* exit codes of an aider process that ends by itself, and of a killed one
ExitCodes == {0, 2}
KilledCode == -9

\* what get_commit_stats gives: the statistics of the commit, or an exception
CommitStats ==
    {[lines_changed |-> 12, files_changed |-> 1, files_added |-> 1,
      files_removed |-> 1, description |-> "fix the bug"]}
StatsOutcomes ==
    {[raised |-> FALSE, stats |-> Some(s)] : s \in CommitStats}
    \cup {[raised |-> TRUE, stats |-> None]}

\* what subprocess.Popen does: the process starts, `aider` is not on the
\* PATH, or the operating system refuses for another reason
PopenOutcomes == {"spawned", "FileNotFoundError", "OSError"}

\* the working directory the user has selected, "" while there is none
WorkDirs == {"", "/project"}

\* lines 75-80 with `session_cost = cost` in place of `session_cost += cost`
session_cost_after_Assign(total, cost) ==
    IF cost # None THEN cost[1] ELSE total

\* lines 75-80: the running session cost after a request with this cost
session_cost_after(total, cost) ==
    IF cost # None THEN total + cost[1] ELSE total

\* lines 63-73 written as an assignment of a new list
append_Overwrite(history, record) == <<record>>

\* lines 63-73, request_history.append: the record is added at the end
append(history, record) == Append(history, record)

\* lines 25-80, record_request(request_id, commit_id, stats, failure_reason,
\* description, cost): appends the summary and updates the session cost
record_request(request_id, commit_id, stats, failure_reason, description, cost) ==
    LET lines_total == IF stats # None THEN stats[1].lines_changed ELSE 0
        files_total ==
            IF stats # None
            THEN stats[1].files_changed + stats[1].files_added
                 + stats[1].files_removed
            ELSE 0
        description_ == IF stats # None THEN stats[1].description ELSE description
    IN  /\ request_history' =
            append(request_history,
                   [request_id |-> request_id,
                    commit_id |-> commit_id,
                    lines |-> lines_total,
                    files |-> files_total,
                    cost |-> cost,
                    failure_reason |-> failure_reason,
                    description |-> description_])
        /\ session_cost' = session_cost_after(session_cost, cost)

\* app.py line 187: uuid.uuid4() gives an id that no earlier call gave; every
\* send so far started one worker, so one more than their number is unused
uuid4 == Len(threads) + 1

\* app.py line 186 generating an id for every message
starts_fresh_request_Always(active) == TRUE

\* app.py line 186: the send handler starts a fresh request
starts_fresh_request(active) == ~active

\* the locals of a run_aider call as the thread starts (lines 83-107)
NewThread(request_id) ==
    [pc |-> "start",
     request_id |-> request_id,
     commit_id |-> None,
     failure_reason |-> None,
     waiting_on_user |-> FALSE,
     request_cost |-> None,
     output |-> << >>,        \* the lines read from proc.stdout so far
     expired |-> FALSE,       \* timeout_minutes * 60 seconds have passed
     returncode |-> None,
     outcome |-> ""]          \* the branch by which the call ended

\* the user types a message into the enabled input box
Type ==
    /\ Len(threads) < MaxSends
    /\ input_state = "normal"
    /\ input_text = ""
    /\ input_text' = "fix the bug"
    /\ UNCHANGED <<request_history, current_request_id, request_active,
                   session_cost, status_text, input_state, threads,
                   output_widget, reset_on_new_request>>
    /\ UNCHANGED <<trendVars, utilVars>>

\* output.insert(tk.END, ...): the widget holds text afterwards.  Of the
\* content only whether there is any is kept.
insert(content) == "filled"

\* runner.maybe_clear_output(widget), which app.py line 180 calls and
\* tests/test_runner.py lines 291-308 exercise: all of the widget's text is
\* deleted and the flag reset when the flag is set and no request is active
maybe_clear_output(flag, active, content) ==
    IF flag /\ ~active
    THEN [content |-> "empty", flag |-> FALSE]
    ELSE [content |-> content, flag |-> flag]

\* the flag is set when a request finished with a commit (app.py line 179)
mark_reset_on_new_request == reset_on_new_request' = TRUE

\* on_send without line 180
remove_old_output_Skipped(flag, active, content) ==
    [content |-> content, flag |-> flag]

\* app.py lines 179-180: old output is removed before the send
remove_old_output(flag, active, content) ==
    maybe_clear_output(flag, active, content)

\* on_send without line 184
sending_state_Normal == "normal"

\* app.py line 184: the state of the input box while aider responds
sending_state == "disabled"

\* app.py lines 168-208, on_send: the Return key in the input box.  The
\* worker is started with req_id as the request id of the run.
on_send(work_dir) ==
    /\ Len(threads) < MaxSends
    /\ UNCHANGED <<trendVars, utilVars>>
    /\ IF input_text = ""
       THEN UNCHANGED runnerVars
       ELSE IF work_dir = ""
       THEN /\ output_widget' = insert(output_widget)
            /\ UNCHANGED <<request_history, current_request_id,
                           request_active, session_cost, status_text,
                           input_state, input_text, threads,
                           reset_on_new_request>>
       ELSE /\ LET cleared == remove_old_output(reset_on_new_request,
                                                request_active, output_widget)
               IN  /\ output_widget' = cleared.content
                   /\ reset_on_new_request' = cleared.flag
            /\ input_text' = ""
            /\ input_state' = sending_state
            /\ IF starts_fresh_request(request_active)
               THEN /\ current_request_id' = Some(uuid4)
                    /\ request_active' = TRUE
               ELSE UNCHANGED <<current_request_id, request_active>>
            /\ threads' = Append(threads, NewThread(current_request_id'[1]))
            /\ UNCHANGED <<request_history, session_cost, status_text>>

\* the worker t with some of its locals changed
Thread(t, changes) ==
    [threads EXCEPT ![t] = [f \in DOMAIN threads[t] |->
        IF f \in DOMAIN changes THEN changes[f] ELSE threads[t][f]]]

\* run_aider with line 252 at the end of the try block instead
Finally_Skipped == input_state' = input_state

\* lines 250-253, the finally clause: the input box is enabled again
Finally == input_state' = "normal"

\* the worker t after its call has ended by the given branch: its locals are
\* gone, except what is kept here to tell how it ended
Ended(t, outcome) ==
    Thread(t, [pc |-> "done", outcome |-> outcome, commit_id |-> None,
               failure_reason |-> None, request_cost |-> None,
               output |-> << >>, expired |-> FALSE, returncode |-> None])

\* runner.py lines 102-137: run_aider up to the start of the aider process,
\* and lines 240-253 when the start fails
RunStart(t, popen) ==
    /\ threads[t].pc = "start"
    /\ output_widget' = insert(output_widget)
    /\ UNCHANGED <<current_request_id, input_text, reset_on_new_request>>
    /\ UNCHANGED <<trendVars, utilVars>>
    /\ CASE popen = "spawned" ->
              /\ status_text' = Str("Waiting on aider's response...")
              /\ threads' = Thread(t, [pc |-> "reading"])
              /\ UNCHANGED <<request_history, session_cost, request_active,
                             input_state>>
         [] popen = "FileNotFoundError" ->
              /\ status_text' = Str("Failed to make commit due to missing 'aider'")
              /\ record_request(threads[t].request_id, None, None,
                                Some(Str("aider not found")), "",
                                threads[t].request_cost)
              /\ request_active' = FALSE
              /\ Finally
              /\ threads' = Ended(t, "not_found")
         [] popen = "OSError" ->
              /\ status_text' = Str("Waiting on aider's response...")
              /\ Finally
              /\ threads' = Ended(t, "exception")
              /\ UNCHANGED <<request_history, session_cost, request_active>>

\* lines 160-195: one turn of the read loop on the next line of aider
ReadLine(t, line) ==
    /\ threads[t].pc = "reading"
    /\ Len(threads[t].output) < MaxOutput
    /\ UNCHANGED <<request_history, current_request_id, request_active,
                   session_cost, input_state, input_text,
                   reset_on_new_request>>
    /\ UNCHANGED <<trendVars, utilVars>>
    /\ output_widget' = IF should_suppress(line) THEN output_widget
                        ELSE insert(output_widget)
    /\ LET output == Append(threads[t].output, line)
           cid == extract_commit_id(line)
           commit_id == IF cid # None THEN cid ELSE threads[t].commit_id
           cost == extract_cost(line)
           request_cost == IF cost # None THEN cost ELSE threads[t].request_cost
       IN  IF should_suppress(line)
           THEN /\ threads' = Thread(t, [output |-> output])
                /\ UNCHANGED status_text
           ELSE IF needs_user_input(line)
           THEN /\ status_text' = Str("Aider is waiting on our input")
                /\ threads' = Thread(t, [output |-> output,
                                         commit_id |-> commit_id,
                                         request_cost |-> request_cost,
                                         waiting_on_user |-> TRUE,
                                         returncode |-> Some(KilledCode),
                                         pc |-> "exited"])
           ELSE IF commit_id = None /\ ~threads[t].waiting_on_user
                   /\ threads[t].expired
           THEN /\ status_text' = Str("Failed to make commit due to timeout")
                /\ threads' = Thread(t, [output |-> output,
                                         commit_id |-> commit_id,
                                         request_cost |-> request_cost,
                                         failure_reason |->
                                             Some(Str("Timed out waiting for commit id")),
                                         returncode |-> Some(KilledCode),
                                         pc |-> "exited"])
           ELSE /\ threads' = Thread(t, [output |-> output,
                                         commit_id |-> commit_id,
                                         request_cost |-> request_cost])
                /\ UNCHANGED status_text

\* line 160 at the end of aider's output: the process has ended with exit
\* code rc and the loop is left
ReadEOF(t, rc) ==
    /\ threads[t].pc = "reading"
    /\ threads' = Thread(t, [returncode |-> Some(rc), pc |-> "exited"])
    /\ UNCHANGED <<request_history, current_request_id, request_active,
                   session_cost, status_text, input_state, input_text,
                   output_widget, reset_on_new_request>>
    /\ UNCHANGED <<trendVars, utilVars>>

\* the clock passes timeout_minutes * 60 seconds after start_time (line 138)
Elapse(t) ==
    /\ threads[t].pc = "reading"
    /\ ~threads[t].expired
    /\ threads' = Thread(t, [expired |-> TRUE])
    /\ UNCHANGED <<request_history, current_request_id, request_active,
                   session_cost, status_text, input_state, input_text,
                   output_widget, reset_on_new_request>>
    /\ UNCHANGED <<trendVars, utilVars>>

\* lines 199-229 asking for waiting_on_user first
branch_WaitingFirst(commit_id, waiting_on_user) ==
    IF waiting_on_user THEN "waiting"
    ELSE IF commit_id # None THEN "commit"
    ELSE "failure"

\* lines 199, 225 and 229: the branch the run ends in (`if commit_id`,
\* `elif waiting_on_user`, `else`)
branch(commit_id, waiting_on_user) ==
    IF commit_id # None THEN "commit"
    ELSE IF waiting_on_user THEN "waiting"
    ELSE "failure"

\* lines 197-239 and 250-253: after proc.wait() the run is recorded by the
\* branch it ended in and the input box is enabled again
Finish(t, stats_outcome) ==
    /\ threads[t].pc = "exited"
    /\ UNCHANGED <<current_request_id, input_text>>
    /\ UNCHANGED <<trendVars, utilVars>>
    /\ Finally
    /\ LET request_id == threads[t].request_id
           commit_id == threads[t].commit_id
           request_cost == threads[t].request_cost
           ended_in == branch(commit_id, threads[t].waiting_on_user)
       IN  IF ended_in = "commit"
           THEN /\ IF ~stats_outcome.raised
                   THEN /\ record_request(request_id, commit_id,
                                          stats_outcome.stats, None, "",
                                          request_cost)
                        /\ status_text' =
                               Fmt("Successfully made changes with commit id %s. Click to test changes",
                                   <<commit_id[1]>>)
                        /\ threads' = Ended(t, "commit")
                   ELSE /\ record_request(request_id, commit_id, None,
                                          Some(Fmt("stats error: %s",
                                                   <<"git failed">>)),
                                          "", request_cost)
                        /\ status_text' =
                               Fmt("Made commit %s but failed to gather stats",
                                   <<commit_id[1]>>)
                        /\ threads' = Ended(t, "stats_error")
                /\ request_active' = FALSE
                /\ mark_reset_on_new_request
                /\ UNCHANGED output_widget
           ELSE IF ended_in = "waiting"
           THEN /\ threads' = Ended(t, "waiting")
                /\ UNCHANGED <<request_history, session_cost, request_active,
                               status_text, output_widget,
                               reset_on_new_request>>
           ELSE LET failure_reason ==
                        IF threads[t].failure_reason = None
                        THEN Some(Str("No commit id found"))
                        ELSE threads[t].failure_reason
                IN  /\ status_text' = Fmt("Failed to make commit due to %s",
                                          <<failure_reason[1].text>>)
                    /\ record_request(request_id, None, None, failure_reason,
                                      "", request_cost)
                    /\ request_active' = FALSE
                    /\ output_widget' = insert(output_widget)
                    /\ UNCHANGED reset_on_new_request
                    /\ threads' = Ended(t, "failure")

\* the other parts of the program at rest
TrendsAtRest ==
    /\ DEFAULT_HORIZON = forecast_horizon_fallback
    /\ DEFAULT_CONFIDENCE = confidence_level_fallback
    /\ values = << >>
    /\ horizon = DEFAULT_HORIZON
    /\ confidence = DEFAULT_CONFIDENCE
    /\ result = NotCalled
    /\ prev = [confidence |-> 0, result |-> NotCalled]

\* app.py lines 300-330, check_api_key, which main() runs before any other
\* event (line 346): the input box is left enabled only with a verified key
check_api_key(verified) == IF verified THEN "normal" ELSE "disabled"

InitRunner ==
    /\ RunnerImported
    /\ \E verified \in BOOLEAN : input_state = check_api_key(verified)
    /\ TrendsAtRest
    /\ UpgradeAtRest /\ BuildAtRest /\ CacheAtRest /\ HistoryAtRest

NextRunner ==
    \/ Type
    \/ \E work_dir \in WorkDirs : on_send(work_dir)
    \/ \E t \in DOMAIN threads, popen \in PopenOutcomes : RunStart(t, popen)
    \/ \E t \in DOMAIN threads, line \in AiderLines : ReadLine(t, line)
    \/ \E t \in DOMAIN threads, rc \in ExitCodes : ReadEOF(t, rc)
    \/ \E t \in DOMAIN threads : Elapse(t)
    \/ \E t \in DOMAIN threads, stats_outcome \in StatsOutcomes :
           Finish(t, stats_outcome)

SpecRunner == InitRunner /\ [][NextRunner]_vars

\* the steps the worker t takes by itself: starting aider (lines 102-137)
\* and everything after the read loop (lines 197-253).  The turns of the
\* read loop are not among them: line 160 blocks until aider prints a line
\* or closes its output.
WorkerStep(t) ==
    /\ t \in DOMAIN threads
    /\ \/ \E popen \in PopenOutcomes : RunStart(t, popen)
       \/ \E stats_outcome \in StatsOutcomes : Finish(t, stats_outcome)

\* the workers are daemon threads (app.py lines 193-207) that the
\* interpreter keeps scheduling: a worker that can take a step of its own
\* takes it.  Nothing makes the user type or aider print.
SpecRunnerFair ==
    SpecRunner /\ \A t \in 1..MaxSends : WF_vars(WorkerStep(t))

\* ============================================ part 3: utils/config.py
\* ------------------------------------------------- the script upgrade
\* The script is the sequence of its pieces, each piece being what the
\* searches of the upgrade can tell apart:
\*   legacy_call     InputSystemUIInputModule.LoadDefaultActions()
\*   legacy_mention  other text that contains LoadDefaultActions
\*   module_decl     a declaration of an InputSystemUIInputModule variable
\*   helper_mention  other text that contains AssignDefaultUIActions
\*   code            any other text
\*   closing         the closing braces of the class and its namespace
\*   helper_call     AssignDefaultUIActions(<arg>), written by the upgrade
\*   helper_snippet  _ASSIGN_HELPER_SNIPPET, written by the upgrade
Piece(kind) == [kind |-> kind, arg |-> ""]
HelperCall(module_var) == [kind |-> "helper_call", arg |-> module_var]

PieceKinds == {"legacy_call", "legacy_mention", "module_decl",
               "helper_mention", "code"}

\* the scripts a project may hold before the first run
ScriptTexts ==
    LET bodies == UNION {[1..n -> {Piece(k) : k \in PieceKinds}] :
                            n \in 0..MaxScriptLen}
    IN  bodies \cup {body \o <<Piece("closing")>> : body \in bodies}

\* `"LoadDefaultActions" in text` (line 274); the snippet names it in a comment
HasLoadDefaultActions(text) ==
    \E i \in DOMAIN text :
        text[i].kind \in {"legacy_call", "legacy_mention", "helper_snippet"}

\* `"AssignDefaultUIActions" in text` (line 277)
HasAssignDefaultUIActions(text) ==
    \E i \in DOMAIN text :
        text[i].kind \in {"helper_mention", "helper_call", "helper_snippet"}

\* lines 222-245: the name of the module variable, if a declaration shows it
_find_input_module_variable(text) ==
    IF \E i \in DOMAIN text : text[i].kind = "module_decl"
    THEN Some("module") ELSE None

\* the pattern of line 288 matches the legacy call, parentheses included
IsLegacyCall(piece) == piece.kind = "legacy_call"

\* lines 287-291 with count=1: only the first legacy call is replaced
subn_FirstOnly(text, module_var) ==
    LET hits == {i \in DOMAIN text : IsLegacyCall(text[i])}
    IN  [new_text |-> [i \in DOMAIN text |->
                          IF i \in hits /\ \A j \in hits : i <= j
                          THEN HelperCall(module_var) ELSE text[i]],
         replacements |-> IF hits = {} THEN 0 ELSE 1]

\* lines 287-291, re.subn: every legacy call replaced by the helper call, and
\* the number of replacements
subn(text, module_var) ==
    [new_text |-> [i \in DOMAIN text |->
                      IF IsLegacyCall(text[i])
                      THEN HelperCall(module_var) ELSE text[i]],
     replacements |-> Cardinality({i \in DOMAIN text : IsLegacyCall(text[i])})]

\* lines 248-257: the snippet goes before the final closing braces, or at the
\* end of a text that does not end with them
_insert_assign_helper(text) ==
    IF text # << >> /\ text[Len(text)].kind = "closing"
    THEN SubSeq(text, 1, Len(text) - 1)
         \o <<Piece("helper_snippet"), Piece("closing")>>
    ELSE Append(text, Piece("helper_snippet"))

\* lines 260-299: the file after the call, and the value returned
_upgrade_input_module_bootstrap(file) ==
    IF file = None THEN [file |-> file, value |-> FALSE]
    ELSE LET text == file[1] IN
    IF ~HasLoadDefaultActions(text) THEN [file |-> file, value |-> FALSE]
    ELSE IF HasAssignDefaultUIActions(text) THEN [file |-> file, value |-> FALSE]
    ELSE LET module_var == _find_input_module_variable(text) IN
    IF module_var = None THEN [file |-> file, value |-> FALSE]
    ELSE LET r == subn(text, module_var[1]) IN
    IF r.replacements = 0 THEN [file |-> file, value |-> FALSE]
    ELSE [file |-> Some(_insert_assign_helper(r.new_text)), value |-> TRUE]

\* a project with or without the script
InitUpgrade ==
    /\ script \in {None} \cup {Some(text) : text \in ScriptTexts}
    /\ returned = << >>
    /\ TrendsAtRest /\ RunnerStarted
    /\ BuildAtRest /\ CacheAtRest /\ HistoryAtRest

\* one run of the upgrade on the project
Upgrade ==
    /\ Len(returned) < MaxRuns
    /\ LET r == _upgrade_input_module_bootstrap(script)
       IN  /\ script' = r.file
           /\ returned' = Append(returned, r.value)
    /\ UNCHANGED <<trendVars, runnerVars, buildVars, cacheVars, historyVars>>

NextUpgrade == Upgrade

SpecUpgrade == InitUpgrade /\ [][NextUpgrade]_vars

\* ---------------------------------------------------- build and launch
\* the programs a build may start with: the Unity editor named by config.ini,
\* by UNITY_PATH, the installed editor of version v, and a custom build tool
ConfigUnity == <<"C:/Unity/Unity.exe", 0>>
EnvUnity == <<"D:/Unity/Unity.exe", 0>>
HubUnity(v) == <<"C:/Program Files/Unity/Hub/Editor/%s/Editor/Unity.exe", v>>
CustomBuildTool == <<"build", 0>>
HubVersions == {1, 2}

\* exit codes of the build command
BuildExitCodes == {0, 1}

\* the game executables: the preferred one and another one in the project's
\* Builds/Windows, and one that a caller names outside of the project
PreferredGame == [dir |-> "Builds/Windows", name |-> "NoLight.exe"]
OtherGame == [dir |-> "Builds/Windows", name |-> "Other.exe"]
CustomGame == [dir |-> "/games", name |-> "custom.exe"]
GamePaths == {PreferredGame, OtherGame, CustomGame}

\* the machines a call may run on
Hosts ==
    [config_build_cmd : {None, Some(ConfigUnity)},
     UNITY_PATH : {None, Some(EnvUnity)},
     candidates : SUBSET HubVersions,
     files : SUBSET {ConfigUnity, EnvUnity, HubUnity(2), CustomBuildTool}]

\* the arguments of a call (the project path is always given)
BuildArgs ==
    [build_cmd : {None, Some(CustomBuildTool)},
     run_cmd : {None, Some(CustomGame)}]

\* _find_unity_exe asking the environment before config.ini
_find_unity_exe_EnvFirst(host_) ==
    LET from_env == host_.UNITY_PATH
        configured == IF from_env # None THEN from_env
                      ELSE host_.config_build_cmd
        build_cmd ==
            IF configured # None THEN configured
            ELSE IF host_.candidates # {}
            THEN Some(HubUnity(CHOOSE v \in host_.candidates :
                                   \A w \in host_.candidates : w <= v))
            ELSE None
    IN  IF build_cmd # None /\ build_cmd[1] \in host_.files
        THEN [raised |-> "", value |-> build_cmd]
        ELSE [raised |-> "FileNotFoundError", value |-> None]

\* lines 168-196, _find_unity_exe on this machine: the path it returns, or
\* the exception it raises
_find_unity_exe(host_) ==
    LET configured == host_.config_build_cmd
        from_env == IF configured # None THEN configured ELSE host_.UNITY_PATH
        build_cmd ==
            IF from_env # None THEN from_env
            ELSE IF host_.candidates # {}
            THEN Some(HubUnity(CHOOSE v \in host_.candidates :
                                   \A w \in host_.candidates : w <= v))
            ELSE None
    IN  IF build_cmd # None /\ build_cmd[1] \in host_.files
        THEN [raised |-> "", value |-> build_cmd]
        ELSE [raised |-> "FileNotFoundError", value |-> None]

\* lines 199-219, resolve_game_executable: the preferred executable of the
\* project's Builds/Windows, else the first executable there by name
resolve_game_executable(exes, preferred_name) ==
    LET preferred == [dir |-> "Builds/Windows", name |-> preferred_name]
    IN  IF preferred \in exes THEN [raised |-> "", value |-> Some(preferred)]
        ELSE IF PreferredGame \in exes
        THEN [raised |-> "", value |-> Some(PreferredGame)]
        ELSE IF OtherGame \in exes
        THEN [raised |-> "", value |-> Some(OtherGame)]
        ELSE [raised |-> "FileNotFoundError", value |-> None]

\* line 400 taking every exit code for a success
build_failed_Never(returncode) == FALSE

\* line 400: the build reported a failure
build_failed(returncode) == returncode # 0

\* lines 343-346: the editor is looked for when no build command is given
located_unity_exe(args, host_) ==
    IF args.build_cmd = None
    THEN LET unity == _find_unity_exe(host_)
         IN  [called |-> TRUE, raised |-> unity.raised, value |-> unity.value]
    ELSE [called |-> FALSE, raised |-> "", value |-> None]

\* the call as it ends: the subprocess calls it made, the build process it
\* waited for and the way it ended
BuildEnd(calls_, build_proc_, result_) ==
    [calls |-> calls_, build_proc |-> build_proc_, result |-> result_]

\* lines 302-450, build_and_launch_game(build_cmd, run_cmd, project_path) on
\* this machine, when the build exits with `returncode` and leaves the
\* executables `exes` on the disk
build_and_launch_game(args, host_, returncode, exes) ==
    LET run_cmd == IF args.run_cmd = None THEN PreferredGame ELSE args.run_cmd[1]
        unity == _find_unity_exe(host_)
    IN  IF args.build_cmd = None /\ unity.raised # ""
        THEN BuildEnd(<< >>, None, unity.raised)
        ELSE
    LET exe_path == IF args.build_cmd = None THEN unity.value[1]
                    ELSE args.build_cmd[1]
        ran == <<[fn |-> "run", cmd |-> exe_path[1]]>>
        build_proc_ == Some([returncode |-> returncode, exes |-> exes])
    IN  IF exe_path \notin host_.files
        THEN BuildEnd(<< >>, None, "FileNotFoundError")
        ELSE IF build_failed(returncode)
        THEN BuildEnd(ran, build_proc_, "RuntimeError")
        ELSE
    LET found == IF run_cmd \in exes THEN [raised |-> "", value |-> Some(run_cmd)]
                 ELSE resolve_game_executable(exes, run_cmd.name)
    IN  IF found.raised # ""
        THEN BuildEnd(ran, build_proc_, "FileNotFoundError")
        ELSE BuildEnd(Append(ran, [fn |-> "popen", cmd |-> found.value[1].name]),
                         build_proc_, "returned")

\* the scripts of the projects that are built: none, one that uses the
\* legacy call, one that does not
BuiltScripts ==
    {None,
     Some(<<Piece("module_decl"), Piece("legacy_call"), Piece("closing")>>),
     Some(<<Piece("code"), Piece("closing")>>)}

InitBuild ==
    /\ build_args \in BuildArgs
    /\ host \in Hosts
    /\ script \in BuiltScripts
    /\ returned = << >>
    /\ calls = << >>
    /\ build_proc = None
    /\ build_result = "not_called"
    /\ unity_exe = [called |-> FALSE, raised |-> "", value |-> None]
    /\ work_dir_var \in WorkDirs
    /\ builder_calls = << >>
    /\ dialogs = << >>
    /\ launch_result = "not_called"
    /\ TrendsAtRest /\ RunnerStarted /\ CacheAtRest /\ HistoryAtRest

\* one call of build_and_launch_game, the script upgrade of lines 335-340
\* first
BuildAndLaunch(returncode, exes) ==
    /\ build_result = "not_called"
    /\ LET upgraded == _upgrade_input_module_bootstrap(script)
           e == build_and_launch_game(build_args, host, returncode, exes)
       IN  /\ script' = upgraded.file
           /\ returned' = Append(returned, upgraded.value)
           /\ calls' = e.calls
           /\ build_proc' = e.build_proc
           /\ build_result' = e.result
    /\ unity_exe' = located_unity_exe(build_args, host)
    /\ builder_calls' = Append(builder_calls, work_dir_var)
    /\ UNCHANGED <<build_args, host, work_dir_var, dialogs, launch_result>>
    /\ UNCHANGED <<trendVars, runnerVars, cacheVars, historyVars>>

\* the exceptions build_and_launch_game raises (config.py lines 348, 378,
\* 415 and 438), all of them subclasses of Exception
BuildExceptions == {"FileNotFoundError", "RuntimeError"}

\* nolight/app.py line 61 written as `except FileNotFoundError`
caught_OnlyFileNotFound(raised) == raised = "FileNotFoundError"

\* nolight/app.py line 61, `except Exception`: the handler takes every
\* exception the builder raises
caught(raised) == raised \in BuildExceptions

\* traceback.format_exc() in the handler: the stack trace, which ends with
\* the line naming the exception that was raised
format_exc(raised) ==
    Fmt("Traceback (most recent call last):\n%s", <<raised>>)

\* nolight/app.py lines 55-63, launch_game(work_dir_var.get()) as the
\* "Build & Run" button calls it (line 91): the builder is called with the
\* project path alone, and an exception it raises is shown in a dialog
launch_game(returncode, exes) ==
    /\ build_result = "not_called"
    /\ LET args == [build_cmd |-> None, run_cmd |-> None]
           upgraded == _upgrade_input_module_bootstrap(script)
           e == build_and_launch_game(args, host, returncode, exes)
       IN  /\ build_args' = args
           /\ script' = upgraded.file
           /\ returned' = Append(returned, upgraded.value)
           /\ calls' = e.calls
           /\ build_proc' = e.build_proc
           /\ build_result' = e.result
           /\ unity_exe' = located_unity_exe(args, host)
           /\ builder_calls' = Append(builder_calls, work_dir_var)
           /\ IF e.result = "returned"
              THEN /\ dialogs' = dialogs
                   /\ launch_result' = "returned"
              ELSE IF caught(e.result)
              THEN /\ dialogs' = Append(dialogs, format_exc(e.result))
                   /\ launch_result' = "returned"
              ELSE /\ dialogs' = dialogs
                   /\ launch_result' = e.result
    /\ UNCHANGED <<host, work_dir_var>>
    /\ UNCHANGED <<trendVars, runnerVars, cacheVars, historyVars>>

NextBuild ==
    \E returncode \in BuildExitCodes, exes \in SUBSET GamePaths :
        \/ BuildAndLaunch(returncode, exes)
        \/ launch_game(returncode, exes)

SpecBuild == InitBuild /\ [][NextBuild]_vars

\* --------------------------------------------- working directory cache
\* A path, and the text of the cache file, is the sequence of its characters.
PathChars == {"/", "a", " ", "\n"}
Whitespace == {" ", "\n"}

\* the paths save_working_dir is called with; the directory chooser gives the
\* empty one when the user selects nothing (app.py line 109)
SavedPaths == UNION {[1..n -> PathChars] : n \in 0..MaxPathLen}

RECURSIVE lstrip(_)
lstrip(text) ==
    IF text # << >> /\ Head(text) \in Whitespace THEN lstrip(Tail(text))
    ELSE text

RECURSIVE rstrip(_)
rstrip(text) ==
    IF text # << >> /\ text[Len(text)] \in Whitespace
    THEN rstrip(SubSeq(text, 1, Len(text) - 1))
    ELSE text

\* line 148 without .strip()
strip_Identity(text) == text

\* str.strip() of line 148
strip(text) == rstrip(lstrip(text))

\* lines 145-151, load_working_dir on this cache file
load_working_dir(file) ==
    IF file # None
    THEN LET text == strip(file[1])
         IN  IF text # << >> THEN Some(text) ELSE None
    ELSE None

\* lines 154-157, save_working_dir(path): the cache file afterwards
save_working_dir(path) == Some(path)

InitCache ==
    /\ CacheAtRest
    /\ TrendsAtRest /\ RunnerStarted
    /\ UpgradeAtRest /\ BuildAtRest /\ HistoryAtRest

\* the working directory is saved
Save(path) ==
    /\ cache_file' = save_working_dir(path)
    /\ saved' = Some(path)
    /\ loaded' = [called |-> FALSE, value |-> None]
    /\ UNCHANGED <<trendVars, runnerVars, upgradeVars, buildVars, historyVars>>

\* the working directory is loaded
Load ==
    /\ loaded' = [called |-> TRUE, value |-> load_working_dir(cache_file)]
    /\ UNCHANGED <<cache_file, saved>>
    /\ UNCHANGED <<trendVars, runnerVars, upgradeVars, buildVars, historyVars>>

NextCache ==
    \/ \E path \in SavedPaths : Save(path)
    \/ Load

SpecCache == InitCache /\ [][NextCache]_vars

\* ========================================= part 3: the history table
\* An id is the sequence of its characters; the character at position i of
\* the ids drawn here is i, so that a prefix shows its length.
IdOfLen(n) == [i \in 1..n |-> i]

\* utils/git.py line 95: the default display length of abbreviate
abbreviate_length == 8

\* the records request_history may hold, as record_request builds them
HistoryRecords ==
    [request_id : {IdOfLen(n) : n \in 0..MaxIdLen},
     commit_id : {None} \cup {IdOfLen(n) : n \in {7, abbreviate_length, MaxIdLen}},
     lines : {0, 12},
     files : {0, 3},
     cost : {None, Some(123)},
     failure_reason : {None, Some(Str("oops"))},
     description : {"something happened"}]

\* lines 95-100, abbreviate(value, length): the first `length` characters,
\* the empty text for None and for the empty text
abbreviate(value, length) ==
    IF value = << >> THEN << >>
    ELSE SubSeq(value, 1, IF Len(value) < length THEN Len(value) ELSE length)

\* lines 103-113, format_history_row(rec)
format_history_row(rec_) ==
    << abbreviate(rec_.request_id, abbreviate_length),
       abbreviate(rec_.commit_id, abbreviate_length),
       rec_.lines,
       rec_.files,
       rec_.failure_reason,
       rec_.description >>

\* utils/git.py lines 17-24
HISTORY_COL_WIDTHS ==
    [request_id |-> 80, commit_id |-> 80, lines |-> 60, files |-> 60,
     failure_reason |-> 200, description |-> 300]

\* app.py lines 249-257: the columns of the history window
cols == <<"request_id", "commit_id", "lines", "files", "cost",
          "failure_reason", "description">>

InitHistory ==
    /\ rec \in HistoryRecords
    /\ row = None
    /\ history_window = "closed"
    /\ TrendsAtRest /\ RunnerStarted
    /\ UpgradeAtRest /\ BuildAtRest /\ CacheAtRest

\* a caller formats the record
FormatRow ==
    /\ row = None
    /\ row' = Some(format_history_row(rec))
    /\ UNCHANGED <<rec, history_window>>
    /\ UNCHANGED <<trendVars, runnerVars, upgradeVars, buildVars, cacheVars>>

\* app.py lines 245-266, show_history: the History button.  The loop of line
\* 259 looks up the width of every column, and the rows are inserted after it.
show_history ==
    /\ history_window = "closed"
    /\ IF \E i \in DOMAIN cols : cols[i] \notin DOMAIN HISTORY_COL_WIDTHS
       THEN /\ history_window' = "KeyError"
            /\ UNCHANGED row
       ELSE /\ history_window' = "open"
            /\ row' = Some(format_history_row(rec))
    /\ UNCHANGED rec
    /\ UNCHANGED <<trendVars, runnerVars, upgradeVars, buildVars, cacheVars>>

NextHistory ==
    \/ FormatRow
    \/ show_history

SpecHistory == InitHistory /\ [][NextHistory]_vars

\* ============================================================== claims
Called == result # NotCalled
Returned == result.status = "ok"

\* the observations lie exactly on a line (at least two of them)
OnLine(data) ==
    /\ Len(data) >= 2
    /\ \A i \in 1..(Len(data) - 1) : data[i + 1] - data[i] = data[2] - data[1]

\* slope of that line, and its value `h` steps after the last observation
LineStep(data) == data[2] - data[1]
LineValueAhead(data, h) == data[Len(data)] + LineStep(data) * h

\* C1: a call with fewer than two observations (none, or a single one) raises
\* ValueError and returns no result, whatever the horizon and the confidence.
InsufficientDataRaises ==
    (Called /\ Len(values) < 2) =>
        (result.status = "ValueError" /\ DOMAIN result = {"status"})

InsufficientDataWitness ==
    /\ Len(values) = 1
    /\ result.status = "ValueError"
    /\ prev.result.status = "ValueError"
    /\ prev.confidence # confidence

\* C2: insufficient data is the only failure: every call with two or more
\* observations returns a result, and with exactly two observations both
\* probabilities are exactly 0.0 or 1.0.
OnlyFailureIsInsufficientData ==
    (Called /\ Len(values) >= 2) =>
        /\ Returned
        /\ Len(values) = 2 =>
              /\ result.p_slope_positive \in {0, FScale}
              /\ result.p_above_zero_future \in {0, FScale}

\* C3: every returned result has low <= current estimate <= high.
IntervalContainsEstimate ==
    Returned => (result.low <= result.current /\ result.current <= result.high)

IntervalContainsEstimateWitness ==
    /\ Returned
    /\ result.low < result.current
    /\ result.current < result.high

\* C4: for observations exactly on a line with positive slope the call returns
\* p_slope_positive = 1.0, and p_above_zero_future = 1.0 whenever the value
\* extrapolated to position n-1+horizon is positive.
PerfectLinePositive ==
    (Called /\ OnLine(values) /\ LineStep(values) > 0) =>
        /\ Returned
        /\ result.p_slope_positive = FScale
        /\ LineValueAhead(values, horizon) > 0 =>
              result.p_above_zero_future = FScale

\* C5: for observations exactly on a line whose slope is not positive
\* (decreasing or constant) the call returns p_slope_positive = 0.0.
PerfectLineNotPositive ==
    (Called /\ OnLine(values) /\ LineStep(values) <= 0) =>
        (Returned /\ result.p_slope_positive = 0)

\* C6: for observations exactly on a line the call returns p_above_zero_future
\* = 1.0 when the value extrapolated to position n-1+horizon is strictly
\* positive and 0.0 otherwise.
PerfectLineFuture ==
    (Called /\ OnLine(values)) =>
        /\ Returned
        /\ result.p_above_zero_future =
              IF LineValueAhead(values, horizon) > 0 THEN FScale ELSE 0

\* C7: the current estimate is the fitted value at the last observed position:
\* for observations exactly on a line the call returns the last observation.
CurrentEstimateIsLastOnLine ==
    (Called /\ OnLine(values)) =>
        (Returned /\ result.current = values[Len(values)] * FScale)

\* From three observations on, where line 49 divides by n - 2 > 0, every call
\* returns, and observations exactly on a line give the last observation as
\* the estimate and probabilities 0.0 or 1.0 by the sign of the slope and of
\* the extrapolated value.
PerfectLineFromThree ==
    (Called /\ Len(values) >= 3) =>
        /\ Returned
        /\ OnLine(values) =>
              /\ result.current = values[Len(values)] * FScale
              /\ result.low = result.current /\ result.high = result.current
              /\ result.p_slope_positive =
                    IF LineStep(values) > 0 THEN FScale ELSE 0
              /\ result.p_above_zero_future =
                    IF LineValueAhead(values, horizon) > 0 THEN FScale ELSE 0

ProbabilitiesInUnitInterval ==
    Returned =>
        /\ 0 <= result.p_slope_positive /\ result.p_slope_positive <= FScale
        /\ 0 <= result.p_above_zero_future
        /\ result.p_above_zero_future <= FScale

ProbabilitiesInUnitIntervalWitness ==
    /\ Returned
    /\ Locals(values, horizon, confidence).slope_se > 0
    /\ 0 < result.p_slope_positive
    /\ result.p_slope_positive < FScale
    /\ result.p_above_zero_future < result.p_slope_positive

\* C11: a call of summarize_trend has no side effects: every step, whether the
\* call returns or raises (insufficient data included), leaves the caller's
\* observation sequence and the module-level DEFAULT_HORIZON and
\* DEFAULT_CONFIDENCE as they were.
NoSideEffects ==
    [][/\ values' = values
       /\ DEFAULT_HORIZON' = DEFAULT_HORIZON
       /\ DEFAULT_CONFIDENCE' = DEFAULT_CONFIDENCE]_vars

\* a second call has returned on three or more observations, after a first
\* one, with the defaults still standing
NoSideEffectsWitness ==
    /\ Returned
    /\ prev.result.status = "ok"
    /\ Len(values) >= 3
    /\ horizon = DEFAULT_HORIZON
    /\ DEFAULT_CONFIDENCE = confidence_level_fallback

\* the insufficient-data path of the same claim has been taken on one
\* observation, which the caller still holds
NoSideEffectsOnErrorWitness ==
    /\ result = Raise("ValueError")
    /\ Len(values) = 1

\* ------------------------------------------------- claims on the runner
\* the step is the end of worker t's call, by a branch that records it
Records(t) ==
    /\ threads[t].pc # "done"
    /\ threads'[t].pc = "done"
    /\ Len(request_history') = Len(request_history) + 1

LastRecord(history) == history[Len(history)]

\* C12: a request recorded without a reported cost, a success with stats or
\* a failure, has cost 0.0 in its request_history record.
RecordedWithoutCostIsZero ==
    [][\A t \in DOMAIN threads :
          (Records(t) /\ threads[t].request_cost = None)
              => LastRecord(request_history').cost = Some(0)]_vars

\* the last line aider printed, as the failure reason is to quote it
LastOutputLine(output) ==
    IF output = << >> THEN Str("no output captured")
    ELSE Fmt("%s", <<output[Len(output)]>>)

\* C13: when aider exits by itself without any commit id in its output, the
\* run appends exactly one record, whose failure_reason is 'aider exited with
\* code <returncode>: <last output line>' ('no output captured' when aider
\* printed nothing), and sets the status text to
\* 'Request <request_id>: failed - <failure_reason>'.
ExitWithoutCommitIsReported ==
    [][\A t \in DOMAIN threads :
          (/\ threads[t].pc = "exited"
           /\ threads'[t].pc = "done"
           /\ threads[t].commit_id = None
           /\ ~threads[t].waiting_on_user
           /\ threads[t].failure_reason = None)
          => /\ Len(request_history') = Len(request_history) + 1
             /\ LastRecord(request_history').failure_reason # None
             /\ LastRecord(request_history').failure_reason[1].text
                    = "aider exited with code %s: %s"
             /\ LastRecord(request_history').failure_reason[1].args
                    = <<threads[t].returncode[1],
                        LastOutputLine(threads[t].output)>>
             /\ status_text'.text = "Request %s: failed - %s"
             /\ status_text'.args
                    = <<threads[t].request_id,
                        LastRecord(request_history').failure_reason[1]>>]_vars

\* the sum of the costs that are present in the records of a history
RECURSIVE CostSum(_)
CostSum(history) ==
    IF history = << >> THEN 0
    ELSE (IF history[1].cost # None THEN history[1].cost[1] ELSE 0)
         + CostSum(Tail(history))

Sends == Len(threads') = Len(threads) + 1

\* the request ids given to the workers started so far
UsedIds(ts) == {ts[i].request_id : i \in DOMAIN ts}

\* the id the send of this step gives to its worker
SentId == threads'[Len(threads')].request_id

\* on_send generates a fresh id only when no request is active
FreshOnlyWhenInactive ==
    Sends => IF request_active
             THEN SentId = current_request_id[1]
             ELSE SentId \notin UsedIds(threads)

\* the first message after a run that ended with a commit, a failure or
\* aider-not-found gets a new id
NewIdAfterEndedRun ==
    (Sends /\ threads # << >>
        /\ threads[Len(threads)].outcome
              \in {"commit", "stats_error", "failure", "not_found"})
    => SentId \notin UsedIds(threads)

Runs == Len(returned') = Len(returned) + 1
ReturnedNow == returned'[Len(returned')]

Count(text, kind) == Cardinality({i \in DOMAIN text : text[i].kind = kind})

\* the script uses the legacy call and shows the module variable
UsesLegacyCall(file) ==
    /\ file # None
    /\ Count(file[1], "legacy_call") > 0
    /\ _find_input_module_variable(file[1]) # None

\* every legacy call of `before` is a call of the helper on the module
\* variable in `after`, which holds the helper snippet exactly once and is
\* otherwise the text of `before`
Rewritten(before, after) ==
    /\ Count(after, "legacy_call") = 0
    /\ Count(after, "helper_snippet") = 1
    /\ Len(after) = Len(before) + 1
    /\ \A i \in DOMAIN before :
          \E j \in {i, i + 1} :
              after[j] = IF before[i].kind = "legacy_call"
                         THEN HelperCall(_find_input_module_variable(before)[1])
                         ELSE before[i]

\* a later run, and a run on a project without the script, without the
\* legacy call or without a detectable module variable, returns False and
\* leaves the file as it was
NoOpRuns ==
    (Runs /\ (returned # << >> \/ ~UsesLegacyCall(script)))
        => (ReturnedNow = FALSE /\ script' = script)

\* C20 as stated: the first run on a script using LoadDefaultActions()
\* rewrites every such call to AssignDefaultUIActions(<module variable>),
\* inserts the helper exactly once and returns True; any later run returns
\* False and leaves the file unchanged; so does a run on a project without
\* the script, the legacy call or a detectable module variable.
UpgradeIsIdempotent ==
    [][/\ NoOpRuns
       /\ (Runs /\ returned = << >> /\ UsesLegacyCall(script))
           => (ReturnedNow = TRUE /\ Rewritten(script[1], script'[1]))]_vars

\* C20 amended: the same, the first run rewriting a script that uses the
\* legacy call and does not contain the text AssignDefaultUIActions yet; a
\* script that contains it already is left unchanged with False.
UpgradeIsIdempotentUnlessHelperNamed ==
    [][/\ NoOpRuns
       /\ (Runs /\ returned = << >> /\ UsesLegacyCall(script))
           => IF HasAssignDefaultUIActions(script[1])
              THEN ReturnedNow = FALSE /\ script' = script
              ELSE ReturnedNow = TRUE /\ Rewritten(script[1], script'[1])]_vars

\* a script with two legacy calls was rewritten by the first run and left
\* alone by the second
UpgradeIsIdempotentWitness ==
    /\ returned = <<TRUE, FALSE>>
    /\ Count(script[1], "helper_call") = 2
    /\ Count(script[1], "helper_snippet") = 1

\* ----------------------------------------- claims on build and launch
Launched == \E i \in DOMAIN calls : calls[i].fn = "popen"

\* the executables the launch can use: the one the caller named, or one in
\* the project's Builds/Windows
Launchable(exes) ==
    {g \in exes : g \in {PreferredGame, OtherGame}
                  \/ (build_args.run_cmd # None /\ g = build_args.run_cmd[1])}

\* C16: the game is launched only after the build command has run and exited
\* with code 0 and a game executable exists; on success the build runs
\* exactly once, strictly before the single launch; when the build tool is
\* missing (FileNotFoundError, nothing is run), the build exits non-zero
\* (RuntimeError) or no game binary is found (FileNotFoundError), the game is
\* never launched.
LaunchOnlyAfterGoodBuild ==
    /\ Launched =>
          /\ Len(calls) = 2
          /\ calls[1].fn = "run"
          /\ calls[2].fn = "popen"
          /\ build_proc # None
          /\ build_proc[1].returncode = 0
          /\ \E g \in Launchable(build_proc[1].exes) : g.name = calls[2].cmd
    /\ build_result = "returned" => Launched
    /\ build_result \in {"FileNotFoundError", "RuntimeError"} => ~Launched
    /\ (build_result # "not_called" /\ build_proc = None)
          => (build_result = "FileNotFoundError" /\ calls = << >>)
    /\ (build_proc # None /\ build_proc[1].returncode # 0)
          => build_result = "RuntimeError"
    /\ (build_proc # None /\ build_proc[1].returncode = 0
           /\ Launchable(build_proc[1].exes) = {})
          => build_result = "FileNotFoundError"

\* a build by the editor found on the machine succeeded without the
\* preferred executable, and the other executable was launched after it
LaunchOnlyAfterGoodBuildWitness ==
    /\ build_result = "returned"
    /\ build_args.build_cmd = None
    /\ calls = <<[fn |-> "run", cmd |-> HubUnity(2)[1]],
                 [fn |-> "popen", cmd |-> OtherGame.name]>>
    /\ PreferredGame \notin build_proc[1].exes

\* ------------------------------ claims on the working directory cache
\* C17 as stated: load_working_dir returns None when no cache file exists,
\* and after save_working_dir(p) it returns exactly p for every saved path
\* p; after several saves it returns the last one saved.
LoadReturnsSaved ==
    loaded.called =>
        IF saved = None THEN loaded.value = None
        ELSE loaded.value = saved

\* `inner` is `path` without its leading and trailing blanks and newlines
IsStripped(inner, path) ==
    \E a \in 0..Len(path) : \E b \in a..Len(path) :
        /\ inner = SubSeq(path, a + 1, b)
        /\ \A i \in 1..a : path[i] \in {" ", "\n"}
        /\ \A i \in (b + 1)..Len(path) : path[i] \in {" ", "\n"}
        /\ inner # << >> => /\ inner[1] \notin {" ", "\n"}
                           /\ inner[Len(inner)] \notin {" ", "\n"}

\* C17 amended: load_working_dir returns None when no cache file exists, and
\* after save_working_dir(p) it returns p without its leading and trailing
\* whitespace, or None when nothing else is left of p; after several saves
\* it returns this for the last one saved.
LoadReturnsSavedStripped ==
    loaded.called =>
        IF saved = None THEN loaded.value = None
        ELSE IF IsStripped(<< >>, saved[1]) THEN loaded.value = None
        ELSE /\ loaded.value # None
             /\ IsStripped(loaded.value[1], saved[1])

\* a path without surrounding whitespace was loaded back as it was saved
LoadReturnsSavedWitness ==
    /\ loaded.called
    /\ saved = Some(<<"/", "a">>)
    /\ loaded.value = saved

\* ------------------------------------------ claims on the history table
\* C18: format_history_row returns seven values: the request id and the
\* commit id truncated to their first 8 characters, then lines, files, cost,
\* failure_reason and description of the record unchanged, in that order.
RowHasSevenValues ==
    row # None =>
        /\ Len(row[1]) = 7
        /\ row[1][1] = abbreviate(rec.request_id, 8)
        /\ row[1][2] = abbreviate(rec.commit_id, 8)
        /\ row[1][3] = rec.lines
        /\ row[1][4] = rec.files
        /\ row[1][5] = rec.cost
        /\ row[1][6] = rec.failure_reason
        /\ row[1][7] = rec.description

\* C19: every column the history window displays has a width in
\* HISTORY_COL_WIDTHS, so opening the history table never fails on a
\* missing column width.
HistoryWindowOpens == history_window # "KeyError"

\* --------------------------------------------------- claims on launch_game
\* C21: launch_game never propagates a build failure: when the builder
\* raises, the error dialog is shown exactly once and its message contains
\* the original error text; when the build succeeds no dialog is shown; in
\* both cases the builder was called once, with the selected project path.
LaunchGameShowsBuildErrors ==
    launch_result # "not_called" =>
        /\ launch_result = "returned"
        /\ builder_calls = <<work_dir_var>>
        /\ build_result # "returned" =>
              /\ Len(dialogs) = 1
              /\ \E i \in DOMAIN dialogs[1].args :
                     dialogs[1].args[i] = build_result
        /\ build_result = "returned" => dialogs = << >>

\* the build of the selected project exited with a non-zero code, and
\* launch_game returned after showing the RuntimeError in one dialog
LaunchGameShowsBuildErrorsWitness ==
    /\ launch_result = "returned"
    /\ work_dir_var = "/project"
    /\ build_result = "RuntimeError"
    /\ build_proc # None
    /\ Len(dialogs) = 1

\* the build of the selected project succeeded and the game was launched
\* without any dialog
LaunchGameSucceedsWitness ==
    /\ launch_result = "returned"
    /\ build_result = "returned"
    /\ builder_calls = <<"/project">>
    /\ dialogs = << >>

OutputKeptBeforeSendWitness ==
    /\ Len(threads) = 2
    /\ threads[1].outcome = "failure"
    /\ threads[2].pc = "start"
    /\ output_widget = "filled"

\* ------------------------------------------------ claims on _find_unity_exe
\* the newest of the installations found by the search
LastCandidate == CHOOSE v \in host.candidates : \A w \in host.candidates : w <= v

\* C23: _find_unity_exe takes build_cmd of config.ini if it is set, else
\* UNITY_PATH, else the last of the sorted installations found; it returns
\* that path only if it is an existing file and raises FileNotFoundError
\* otherwise, also when nothing was chosen.
FindUnityExePrecedence ==
    unity_exe.called =>
        /\ unity_exe.raised \in {"", "FileNotFoundError"}
        /\ unity_exe.raised = "" =>
              /\ unity_exe.value # None
              /\ unity_exe.value[1] \in host.files
        /\ host.config_build_cmd # None =>
              IF host.config_build_cmd[1] \in host.files
              THEN unity_exe.value = host.config_build_cmd
              ELSE unity_exe.raised = "FileNotFoundError"
        /\ (host.config_build_cmd = None /\ host.UNITY_PATH # None) =>
              IF host.UNITY_PATH[1] \in host.files
              THEN unity_exe.value = host.UNITY_PATH
              ELSE unity_exe.raised = "FileNotFoundError"
        /\ (host.config_build_cmd = None /\ host.UNITY_PATH = None
               /\ host.candidates # {}) =>
              IF HubUnity(LastCandidate) \in host.files
              THEN unity_exe.value = Some(HubUnity(LastCandidate))
              ELSE unity_exe.raised = "FileNotFoundError"
        /\ (host.config_build_cmd = None /\ host.UNITY_PATH = None
               /\ host.candidates = {}) =>
              unity_exe.raised = "FileNotFoundError"

\* config.ini names an editor that exists and UNITY_PATH another one that
\* exists too: the editor of config.ini was returned
FindUnityExePrecedenceWitness ==
    /\ unity_exe.called
    /\ host.config_build_cmd = Some(ConfigUnity)
    /\ host.UNITY_PATH = Some(EnvUnity)
    /\ {ConfigUnity, EnvUnity} \subseteq host.files
    /\ unity_exe.raised = ""
    /\ unity_exe.value = Some(ConfigUnity)

\* config.ini names an editor that does not exist: the call raised although
\* the editor of UNITY_PATH exists
FindUnityExeRaisesWitness ==
    /\ unity_exe.called
    /\ host.config_build_cmd = Some(ConfigUnity)
    /\ ConfigUnity \notin host.files
    /\ host.UNITY_PATH = Some(EnvUnity)
    /\ EnvUnity \in host.files
    /\ unity_exe.raised = "FileNotFoundError"

\* ------------------------------------------- claims on request_history
\* the worker t ends in this step
Ends(t) ==
    /\ t \in DOMAIN threads
    /\ threads[t].pc # "done"
    /\ threads'[t].pc = "done"

\* the ways of ending that the history records: a commit (with or without
\* its statistics), a failure (no commit id or timeout), aider not found
RecordedOutcomes == {"commit", "stats_error", "failure", "not_found"}

HistoryKeepsRecordsWitness ==
    /\ Len(request_history) = 2
    /\ request_history[1].commit_id # None
    /\ request_history[2].failure_reason = Some(Str("aider not found"))

\* ------------------------------------------------ claims on the workers
\* the workers that have not ended
InFlight == {t \in DOMAIN threads : threads[t].pc # "done"}

At(t, places) == t \in DOMAIN threads /\ threads[t].pc \in places

TimeoutStopsWaiting ==
    \A t \in 1..MaxSends :
        (/\ At(t, {"reading"})
         /\ threads[t].expired
         /\ threads[t].commit_id = None
         /\ ~threads[t].waiting_on_user)
        ~> (/\ At(t, {"done"})
            /\ threads[t].outcome = "failure"
            /\ \E i \in DOMAIN request_history :
                  /\ request_history[i].request_id = threads[t].request_id
                  /\ request_history[i].failure_reason
                         = Some(Str("Timed out waiting for commit id")))

\* the turns of the read loop that detected a commit id: suppressed lines
\* are not searched
Detected(output) ==
    {i \in DOMAIN output : ~output[i].suppress /\ output[i].commit # None}

\* the last commit id detected
LastDetected(output) ==
    output[CHOOSE i \in Detected(output) :
               \A j \in Detected(output) : j <= i].commit

\* C28: when at least one commit id was detected in aider's output, the end
\* of run_aider records the request with the last id detected and ends the
\* request (request_active False); the record's failure reason is neither
\* 'No commit id found' nor the timeout, also when a later line stopped the
\* reading for user input.
DetectedCommitIsRecorded ==
    [][\A t \in 1..MaxSends :
          (Ends(t) /\ Detected(threads[t].output) # {}) =>
             /\ Len(request_history') = Len(request_history) + 1
             /\ LastRecord(request_history').request_id = threads[t].request_id
             /\ LastRecord(request_history').commit_id
                    = LastDetected(threads[t].output)
             /\ \/ LastRecord(request_history').failure_reason = None
                \/ LastRecord(request_history').failure_reason[1].text
                       \notin {"No commit id found",
                               "Timed out waiting for commit id"}
             /\ ~request_active'
             /\ threads'[t].outcome \in {"commit", "stats_error"}]_vars

\* aider made a commit and then asked for input: the request was recorded
\* with the commit and ended
DetectedCommitIsRecordedWitness ==
    /\ Len(threads) >= 1
    /\ threads[1].pc = "done"
    /\ threads[1].outcome = "commit"
    /\ threads[1].waiting_on_user
    /\ Len(request_history) >= 1
    /\ request_history[1].commit_id = Some("abcdef1")
    /\ request_history[1].failure_reason = None
    /\ ~request_active

\* ------------------------------------------ claims on the regression
\* C29: the denominator of the slope, the sum over i in 0..n-1 of
\* (i - (n-1)/2)^2, is strictly positive for every n >= 2 (it is
\* n(n^2-1)/12), so the slope is computed without a division by zero.
DenominatorIsPositive ==
    (Called /\ Len(values) >= 2) =>
        LET l == Locals(values, horizon, confidence)
            n == Len(values)
        IN  /\ "denominator" \in DOMAIN l
            /\ RPositive(l.denominator)
            /\ l.denominator = Norm(n * (n * n - 1), 12)
            /\ "slope" \in DOMAIN l

\* a call on five observations, whose denominator is 4 + 1 + 0 + 1 + 4
DenominatorIsPositiveWitness ==
    /\ Returned
    /\ Len(values) = 5
    /\ Locals(values, horizon, confidence).denominator = Rat(10)

\* a call on two observations: the slope is computed with denominator 1/2
DenominatorOfTwoWitness ==
    /\ Called
    /\ Len(values) = 2
    /\ Locals(values, horizon, confidence).denominator = Norm(1, 2)

\* C30: in a call that returns, the forecast is made at position
\* n-1+horizon; with horizon 0 its mean and standard error are those of the
\* current estimate; for every horizon >= 0 its standard error is at least
\* the current one and at least that of the horizon one step shorter.
ForecastErrorGrowsWithHorizon ==
    (Returned /\ horizon >= 0) =>
        LET l == Locals(values, horizon, confidence)
        IN  /\ l.future_x = Len(values) - 1 + horizon
            /\ horizon = 0 =>
                  /\ l.future_mean = l.current_mean
                  /\ l.future_se = l.current_se
            /\ l.future_se >= l.current_se
            /\ horizon > 0 =>
                  Locals(values, horizon - 1, confidence).future_se
                      <= l.future_se

\* a call on noisy observations with a horizon of two steps, whose forecast
\* has a larger standard error than the current estimate and than the
\* forecast one step ahead
ForecastErrorGrowsWithHorizonWitness ==
    /\ Returned
    /\ horizon = 2
    /\ LET l == Locals(values, horizon, confidence)
       IN  /\ l.current_se > 0
           /\ l.future_se > l.current_se
           /\ l.future_se > Locals(values, 1, confidence).future_se

\* a call with horizon 0, whose forecast is the current estimate
ForecastAtHorizonZeroWitness ==
    /\ Returned
    /\ horizon = 0
    /\ LET l == Locals(values, horizon, confidence)
       IN  /\ l.future_se > 0
           /\ l.future_se = l.current_se

====
